---- MODULE Spec2Model ----
(***************************************************************************)
(* Model of examples/main.py of sr-domgen: the registry-driven component   *)
(* builders (build_augmentor, build_spec_augmentor, build_callbacks,       *)
(* build_preprocessor, build_loss, build_model, build_trainer,             *)
(* build_dataloaders) and the top-level start-up flow.                     *)
(*                                                                         *)
(* A Python dict is a function whose DOMAIN is the set of its keys; an     *)
(* ordered mapping of component entries (cfg.items()) is a sequence of     *)
(* entries carrying their key in the field "type".  A call of a builder    *)
(* yields a frame [exc, value, events]: the exception that reached the     *)
(* caller (NoExc when it returned), the returned value, and the calls it   *)
(* made to collaborators (constructors, registries, files, log).          *)
(***************************************************************************)
EXTENDS Integers, Sequences, FiniteSets, TLC

VARIABLES
    pc,      \* position of the caller: "ready"/"done", or the step of __main__
    cfg,     \* the configuration objects in memory (what the builders are handed)
    disk,    \* the files: the configuration as written, the model yaml, the checkpoint
    arg,     \* the remaining arguments of the call
    ret,     \* [fn, exc, value] of the last call
    events   \* the collaborator calls made so far

vars == <<pc, cfg, disk, arg, ret, events>>

\* ------------------------------------------------------------- bounds
\* Longest ordered mapping of component entries.
MaxEntries == 2
\* Largest configured n_views.
MaxViews == 3
\* Largest step / epoch counter stored in a checkpoint.
MaxCounter == 2

\* ------------------------------------------------------------- values
\* Python's None, where the value is otherwise a dict.
None == [IsNone |-> TRUE]
\* No exception reached the caller.
NoExc == "returned"
\* Python's None, where the value is otherwise a string.
NoneStr == "<None>"

\* cfg.get(key, None)
Get(d, key) == IF key \in DOMAIN d THEN d[key] ELSE None

\* dict.update: base updated in place with other, other winning on common keys.
Update(base, other) ==
    [k \in (DOMAIN base) \cup (DOMAIN other) |->
        IF k \in DOMAIN other THEN other[k] ELSE base[k]]

\* d[key] = value
SetItem(d, key, value) ==
    [k \in (DOMAIN d) \cup {key} |-> IF k = key THEN value ELSE d[k]]

\* The frame of a call that has made no call yet.
Frame0 == [exc |-> NoExc, value |-> None, events |-> <<>>]

Emit(fr, ev) == [fr EXCEPT !.events = Append(@, ev)]

Raise(fr, e) == [fr EXCEPT !.exc = e]

\* sr_logger.info(...)
Log(fr, notice, type) == Emit(fr, [op |-> "log", notice |-> notice, type |-> type])

\* ------------------------------------------------------------- registries
supported_perturbations == {"noise", "speed"}

supported_spec_perturbations == {"freq_mask", "time_mask"}

supported_callbacks == {"ModelCheckpoint", "EarlyStopping"}

supported_preprocessors == {"mel", "mfcc"}

supported_losses == {"aam", "ce"}

supported_featurizers == {"ecapa"}

supported_classifiers == {"linear"}

\* ------------------------------------------------------------- constructors
\* A keyword no component class accepts: the stand-in for malformed params.
BadKey == "bad_kwarg"

\* cls(**kwargs) of a collaborator class: the call is recorded; it raises on a
\* keyword the class does not accept and otherwise yields the instance.
Construct(fr, cls, kwargs) ==
    LET called == Emit(fr, [op |-> "construct", cls |-> cls, kwargs |-> kwargs])
    IN  IF BadKey \in DOMAIN kwargs
        THEN Raise(called, "ConstructorError")
        ELSE [called EXCEPT !.value = [cls |-> cls, kwargs |-> kwargs]]

\* cls(dirpath=d, **params): Python rejects a keyword given twice before the
\* constructor runs.
ConstructWithDirpath(fr, cls, dir, params) ==
    IF "dirpath" \in DOMAIN params
    THEN Raise(fr, "TypeError")
    ELSE Construct(fr, cls, SetItem(params, "dirpath", dir))

\* cls(**kwargs) followed, when it returns, by the "CREATED" log line.
ConstructLogged(fr, cls, kwargs) ==
    LET made == Construct(fr, cls, kwargs)
    IN  IF made.exc # NoExc THEN made ELSE Log(made, "CREATED", cls)

\* ------------------------------------------------------------- list builders
\* The loop of build_augmentor / build_spec_augmentor over cfg.items(), from
\* entry i on; fr.value is the list perturbations.
RECURSIVE perturbation_loop(_, _, _, _)
perturbation_loop(registry, config, i, fr) ==
    IF i > Len(config) THEN fr
    ELSE LET aug_config == config[i]
             aug_type == aug_config.type
         IN  IF aug_type \notin registry
             THEN perturbation_loop(registry, config, i + 1,
                                    Log(fr, "does not exist", aug_type))
             ELSE IF aug_config.do_enable
             THEN LET made == Construct(fr, aug_type, aug_config.params)
                  IN  IF made.exc # NoExc THEN made
                      ELSE IF "p" \notin DOMAIN aug_config
                      THEN Raise([made EXCEPT !.value = fr.value], "KeyError")
                      ELSE perturbation_loop(registry, config, i + 1,
                               Log([made EXCEPT !.value =
                                       Append(fr.value, <<aug_config.p, made.value>>)],
                                   "turned ON", aug_type))
             ELSE perturbation_loop(registry, config, i + 1,
                                    Log(fr, "turned OFF", aug_type))

\* Compose(perturbations)
build_spec_augmentor(spec_augmentations_config) ==
    LET fr == perturbation_loop(supported_spec_perturbations, spec_augmentations_config,
                                1, [Frame0 EXCEPT !.value = <<>>])
    IN  IF fr.exc # NoExc THEN fr
        ELSE [fr EXCEPT !.value = [cls |-> "Compose", perturbations |-> fr.value]]

\* AudioAugmentor(perturbations=perturbations, mutex_perturbations=None)
build_augmentor(augmentations_config) ==
    LET fr == perturbation_loop(supported_perturbations, augmentations_config,
                                1, [Frame0 EXCEPT !.value = <<>>])
    IN  IF fr.exc # NoExc THEN fr
        ELSE [fr EXCEPT !.value = [cls |-> "AudioAugmentor", perturbations |-> fr.value]]

\* Mutant: the checkpoint directory is handed to no callback.
construct_callback_without_dirpath(fr, call_type, call_config, checkpoints_save_dir) ==
    Construct(fr, call_type, call_config.params)

\* The constructor call of one enabled, recognized callback entry.
construct_callback(fr, call_type, call_config, checkpoints_save_dir) ==
    IF call_type = "ModelCheckpoint"
    THEN ConstructWithDirpath(fr, call_type, checkpoints_save_dir, call_config.params)
    ELSE Construct(fr, call_type, call_config.params)

\* The loop of build_callbacks, from entry i on; fr.value is the list callbacks.
RECURSIVE callback_loop(_, _, _, _)
callback_loop(config, checkpoints_save_dir, i, fr) ==
    IF i > Len(config) THEN fr
    ELSE LET call_config == config[i]
             call_type == call_config.type
         IN  IF call_type \notin supported_callbacks
             THEN callback_loop(config, checkpoints_save_dir, i + 1,
                                Log(fr, "does not exist", call_type))
             ELSE IF call_config.do_enable
             THEN LET made == construct_callback(fr, call_type, call_config,
                                                 checkpoints_save_dir)
                  IN  IF made.exc # NoExc THEN [made EXCEPT !.value = fr.value]
                      ELSE callback_loop(config, checkpoints_save_dir, i + 1,
                               Log([made EXCEPT !.value = Append(fr.value, made.value)],
                                   "CREATED", call_type))
             ELSE callback_loop(config, checkpoints_save_dir, i + 1,
                                Log(fr, "turned OFF", call_type))

build_callbacks(callbacks_config, checkpoints_save_dir) ==
    callback_loop(callbacks_config, checkpoints_save_dir, 1,
                  [Frame0 EXCEPT !.value = <<>>])

\* ------------------------------------------------------------- inputs
\* The value a configuration gives to each parameter key.
ParamValue(k) ==
    CASE k = "dirpath" -> "user_dir"
      [] k = "monitor" -> "val_loss"
      [] k = "gain" -> 6
      [] OTHER -> "x"

ParamMaps(keys) == {[k \in S |-> ParamValue(k)] : S \in SUBSET keys}

\* Entries of an augmentation mapping: the weight p may be missing.
AugEntries(types) ==
    {[type |-> t, do_enable |-> b, params |-> q] :
        t \in types, b \in BOOLEAN, q \in ParamMaps({"gain", BadKey})}
    \cup
    {[type |-> t, do_enable |-> b, params |-> q, p |-> 1] :
        t \in types, b \in BOOLEAN, q \in ParamMaps({"gain", BadKey})}

\* Entries of a callback mapping.
CallbackEntries(types) ==
    {[type |-> t, do_enable |-> b, params |-> q] :
        t \in types, b \in BOOLEAN, q \in ParamMaps({"monitor", "dirpath", BadKey})}

\* Ordered mappings of at most n entries: a key occurs once.  The empty one
\* also stands for None (read_yaml of no path): the builders test truthiness.
ConfigsOver(entries, n) ==
    {s \in UNION {[1..m -> entries] : m \in 0..n} :
        \A i, j \in 1..Len(s) : i # j => s[i].type # s[j].type}

AugConfigs == ConfigsOver(AugEntries(supported_perturbations \cup {"bogus"}), MaxEntries)

SpecAugConfigs ==
    ConfigsOver(AugEntries(supported_spec_perturbations \cup {"bogus"}), MaxEntries)

CallbackConfigs ==
    ConfigsOver(CallbackEntries(supported_callbacks \cup {"bogus"}), MaxEntries)

CheckpointDir == "ckpt_dir"

NoCall == [fn |-> "none", exc |-> NoExc, value |-> None]

\* What the caller sees of a finished call.
Outcome(fn, fr) ==
    [fn |-> fn, exc |-> fr.exc, value |-> IF fr.exc = NoExc THEN fr.value ELSE None]

\* ------------------------------------------------------------- SpecList
\* One call of a list builder on one configuration.
InitList ==
    /\ pc = "ready"
    /\ cfg = None
    /\ disk = None
    /\ arg \in {[fn |-> "build_augmentor", config |-> c] : c \in AugConfigs}
         \cup {[fn |-> "build_spec_augmentor", config |-> c] : c \in SpecAugConfigs}
         \cup {[fn |-> "build_callbacks", config |-> c,
                checkpoints_save_dir |-> CheckpointDir] : c \in CallbackConfigs}
    /\ ret = NoCall
    /\ events = <<>>

Call_build_augmentor ==
    /\ pc = "ready"
    /\ arg.fn = "build_augmentor"
    /\ LET fr == build_augmentor(arg.config)
       IN  /\ ret' = Outcome("build_augmentor", fr)
           /\ events' = fr.events
    /\ pc' = "done"
    /\ UNCHANGED <<cfg, disk, arg>>

Call_build_spec_augmentor ==
    /\ pc = "ready"
    /\ arg.fn = "build_spec_augmentor"
    /\ LET fr == build_spec_augmentor(arg.config)
       IN  /\ ret' = Outcome("build_spec_augmentor", fr)
           /\ events' = fr.events
    /\ pc' = "done"
    /\ UNCHANGED <<cfg, disk, arg>>

Call_build_callbacks ==
    /\ pc = "ready"
    /\ arg.fn = "build_callbacks"
    /\ LET fr == build_callbacks(arg.config, arg.checkpoints_save_dir)
       IN  /\ ret' = Outcome("build_callbacks", fr)
           /\ events' = fr.events
    /\ pc' = "done"
    /\ UNCHANGED <<cfg, disk, arg>>

NextList ==
    \/ Call_build_augmentor
    \/ Call_build_spec_augmentor
    \/ Call_build_callbacks

SpecList == InitList /\ [][NextList]_vars

\* ------------------------------------------------------------- list claims
ListBuilders == {"build_augmentor", "build_spec_augmentor", "build_callbacks"}

RegistryOf(fn) ==
    CASE fn = "build_augmentor" -> supported_perturbations
      [] fn = "build_spec_augmentor" -> supported_spec_perturbations
      [] OTHER -> supported_callbacks

\* The entries a list builder is to construct, in declaration order.
Eligible(fn, config) ==
    SelectSeq(config, LAMBDA e : e.type \in RegistryOf(fn) /\ e.do_enable)

ConstructEvents(evs) == SelectSeq(evs, LAMBDA e : e.op = "construct")

\* The component classes of a returned list, in order.
BuiltClasses(r) ==
    IF r.fn = "build_callbacks"
    THEN [i \in 1..Len(r.value) |-> r.value[i].cls]
    ELSE [i \in 1..Len(r.value.perturbations) |-> r.value.perturbations[i][2].cls]

ListCallDone == pc = "done" /\ ret.fn \in ListBuilders

\* C1: for any mapping of entries (the weight possibly absent) in which no
\* constructor call fails, a list builder returns a list with exactly one
\* element per entry that is recognized and enabled, in declaration order.
C1_OneElementPerEligibleEntry ==
    (ListCallDone /\ ret.exc \notin {"ConstructorError", "TypeError"}) =>
        /\ ret.exc = NoExc
        /\ BuiltClasses(ret) =
              [i \in 1..Len(Eligible(ret.fn, arg.config)) |->
                  Eligible(ret.fn, arg.config)[i].type]

\* C2: a list builder never calls a constructor for an unrecognized or
\* disabled entry and never raises because of one; an error that reaches the
\* caller is one raised by the constructor call of an enabled, recognized entry.
C2_OnlyConstructorErrorsPropagate ==
    ListCallDone =>
        LET made == ConstructEvents(events)
            todo == Eligible(ret.fn, arg.config)
        IN  /\ Len(made) <= Len(todo)
            /\ \A k \in 1..Len(made) : made[k].cls = todo[k].type
            /\ Len(todo) = 0 => ret.exc = NoExc
            /\ ret.exc # NoExc => ret.exc \in {"ConstructorError", "TypeError"}

\* The keyword arguments build_callbacks is to hand to an entry's constructor.
ExpectedKwargs(e, dir) ==
    IF e.type = "ModelCheckpoint" THEN SetItem(e.params, "dirpath", dir) ELSE e.params

CallbacksCallDone == pc = "done" /\ ret.fn = "build_callbacks"

\* The constructor calls of build_callbacks are those of the enabled,
\* recognized entries, in order, each with the expected keyword arguments,
\* and all of them when it returns.
CallbackCallsAsExpected ==
    LET made == ConstructEvents(events)
        todo == Eligible("build_callbacks", arg.config)
    IN  /\ Len(made) <= Len(todo)
        /\ \A k \in 1..Len(made) :
              /\ made[k].cls = todo[k].type
              /\ made[k].kwargs = ExpectedKwargs(todo[k], arg.checkpoints_save_dir)
              /\ made[k].cls # "ModelCheckpoint" => made[k].kwargs = todo[k].params
        /\ ret.exc = NoExc => Len(made) = Len(todo)

\* C8 (as stated): every enabled ModelCheckpoint entry is constructed with
\* dirpath = the checkpoint directory besides all of its params, whatever the
\* params; every other recognized enabled entry with exactly its params.  A
\* call thus stops only at a constructor that raised.
C8_Original_AnyParams ==
    CallbacksCallDone =>
        /\ CallbackCallsAsExpected
        /\ ret.exc # NoExc =>
              /\ Len(ConstructEvents(events)) >= 1
              /\ BadKey \in
                   DOMAIN ConstructEvents(events)[Len(ConstructEvents(events))].kwargs

\* C8 (amended): an enabled ModelCheckpoint entry whose params do not hold
\* the key dirpath is constructed with dirpath = the checkpoint directory
\* besides all of its params; one whose params hold dirpath is not
\* constructed, the call raising TypeError; every other recognized enabled
\* entry is constructed with exactly its params.
C8_CheckpointDirToModelCheckpoint ==
    CallbacksCallDone =>
        LET made == ConstructEvents(events)
            todo == Eligible("build_callbacks", arg.config)
            n == Len(made)
        IN  /\ CallbackCallsAsExpected
            /\ \A k \in 1..n :
                  made[k].cls = "ModelCheckpoint" =>
                      /\ "dirpath" \notin DOMAIN todo[k].params
                      /\ made[k].kwargs.dirpath = arg.checkpoints_save_dir
                      /\ \A key \in DOMAIN todo[k].params :
                            made[k].kwargs[key] = todo[k].params[key]
            /\ ret.exc = "TypeError" =>
                  /\ n < Len(todo)
                  /\ todo[n + 1].type = "ModelCheckpoint"
                  /\ "dirpath" \in DOMAIN todo[n + 1].params
            /\ ret.exc = "ConstructorError" => n >= 1 /\ BadKey \in DOMAIN made[n].kwargs
            /\ ret.exc \in {NoExc, "TypeError", "ConstructorError"}

\* A ModelCheckpoint entry with params and an entry of another type were both
\* constructed.
C8_Witness ==
    /\ CallbacksCallDone
    /\ ret.exc = NoExc
    /\ \E k \in 1..Len(ConstructEvents(events)) :
          /\ ConstructEvents(events)[k].cls = "ModelCheckpoint"
          /\ "monitor" \in DOMAIN ConstructEvents(events)[k].kwargs
    /\ \E k \in 1..Len(ConstructEvents(events)) :
          /\ ConstructEvents(events)[k].cls = "EarlyStopping"
          /\ "dirpath" \in DOMAIN ConstructEvents(events)[k].kwargs

\* ------------------------------------------------------------- single builders
\* registry[key]
Lookup(fr, name, registry, key) ==
    LET looked == Emit(fr, [op |-> "lookup", registry |-> name, key |-> key])
    IN  IF key \in registry THEN looked ELSE Raise(looked, "KeyError")

\* The params handed to the preprocessor class; with eval the caller's params
\* dict itself is given dither = 0.0.
effective_spec_params(spec_params, eval) ==
    IF eval THEN SetItem(spec_params, "dither", 0) ELSE spec_params

\* The frame of the call, and in field config the object preprocessor_config
\* as the call leaves it.
build_preprocessor(preprocessor_config, eval) ==
    IF preprocessor_config = None
    THEN Raise(Frame0, "ValueError: Preprocessor is missing.")
            @@ [config |-> preprocessor_config]
    ELSE LET spec_type == preprocessor_config.type
             looked == Lookup(Frame0, "supported_preprocessors",
                              supported_preprocessors, spec_type)
             spec_params == effective_spec_params(preprocessor_config.params, eval)
         IN  IF looked.exc # NoExc
             THEN looked @@ [config |-> preprocessor_config]
             ELSE ConstructLogged(looked, spec_type, spec_params)
                     @@ [config |-> [preprocessor_config EXCEPT !.params = spec_params]]

build_loss(loss_config) ==
    IF loss_config = None
    THEN Raise(Frame0, "ValueError: Loss is missing.")
    ELSE LET loss_type == loss_config.type
             looked == Lookup(Frame0, "supported_losses", supported_losses, loss_type)
         IN  IF looked.exc # NoExc THEN looked
             ELSE ConstructLogged(looked, loss_type, loss_config.params)

\* Mutant: the external classifier block wins on common keys.
classifier_params_external_wins(cfg_classifier, params, num_classess) ==
    SetItem(Update(params, cfg_classifier), "num_classes", num_classess)

\* classifier_params after update(params) and the injection of num_classes.
classifier_params_of(cfg_classifier, params, num_classess) ==
    SetItem(Update(cfg_classifier, params), "num_classes", num_classess)

\* Mutant: a classifier is built whatever classifier_type is.
wants_classifier_always(c_type) == TRUE

\* c_type is not None
wants_classifier(c_type) == c_type # NoneStr

\* read_yaml(cfg_path) of a path that is given: the document of the file.
\* files maps a path to the content of the file.
read_yaml(files, cfg_path) == files[cfg_path]

\* read_yaml(cfg.get(key, None)) where a mapping of entries is expected: None
\* (no path configured) is the empty mapping, the builders testing truthiness.
read_entries(files, d, key) ==
    IF key \in DOMAIN d THEN read_yaml(files, d[key]) ELSE <<>>

build_model(model_config, num_classess, files) ==
    IF model_config = None
    THEN Raise(Frame0, "ValueError: Model is missing.")
    ELSE LET f_type == model_config.featurizer_type
             c_type == IF "classifier_type" \in DOMAIN model_config
                       THEN model_config.classifier_type ELSE NoneStr
             params == model_config.params
             doc == read_yaml(files, params.cfg_path)
             read == Emit(Frame0, [op |-> "read_yaml", path |-> params.cfg_path])
             looked == Lookup(read, "supported_featurizers", supported_featurizers, f_type)
             feat == ConstructLogged(
                         Emit(looked, [op |-> "read_block", key |-> "featurizer"]),
                         f_type, doc.featurizer)
         IN  IF looked.exc # NoExc THEN looked
             ELSE IF feat.exc # NoExc THEN feat
             ELSE IF ~wants_classifier(c_type)
             THEN [feat EXCEPT !.value = [featurizer |-> feat.value, classifier |-> None]]
             ELSE LET asked == Emit(feat, [op |-> "read_block", key |-> "classifier"])
                  IN  IF "classifier" \notin DOMAIN doc THEN Raise(asked, "KeyError")
                      ELSE LET classifier_params ==
                                   classifier_params_of(doc.classifier, params, num_classess)
                               found == Lookup(asked, "supported_classifiers",
                                               supported_classifiers, c_type)
                               made == ConstructLogged(found, c_type, classifier_params)
                           IN  IF found.exc # NoExc THEN found
                               ELSE IF made.exc # NoExc THEN made
                               ELSE [made EXCEPT !.value =
                                        [featurizer |-> feat.value,
                                         classifier |-> made.value]]

\* ------------------------------------------------------------- SpecBuild
\* dither in tenths: 5 is 0.5, 0 is 0.0.
PreprocessorParams ==
    {[k \in S |-> IF k = "dither" THEN d ELSE ParamValue(k)] :
        S \in SUBSET {"dither", BadKey}, d \in {0, 5}}

PreprocessorConfigs ==
    {None} \cup {[type |-> t, params |-> q] : t \in {"mel", "bogus"}, q \in PreprocessorParams}

LossConfigs ==
    {None} \cup {[type |-> t, params |-> q] : t \in {"aam"}, q \in ParamMaps({BadKey})}

ModelYamlPath == "model.yaml"

\* The params of a model spec: cfg_path and any of hidden_dim, num_classes.
ModelParams ==
    {[k \in S \cup {"cfg_path"} |->
          CASE k = "cfg_path" -> ModelYamlPath
            [] k = "hidden_dim" -> 512
            [] OTHER -> 9] : S \in SUBSET {"hidden_dim", "num_classes"}}

ModelConfigs ==
    {None}
    \cup {[featurizer_type |-> "ecapa", params |-> q] : q \in ModelParams}
    \cup {[featurizer_type |-> "ecapa", classifier_type |-> c, params |-> q] :
             c \in {"linear", "bogus"}, q \in ModelParams}

\* The classifier block of the external model yaml.
ClassifierBlocks ==
    {[k \in S |-> CASE k = "hidden_dim" -> 256 [] k = "num_classes" -> 3 [] OTHER -> 1] :
        S \in SUBSET {"hidden_dim", "num_classes", "dropout"}}

\* The external model yaml, with or without a classifier block.
ModelYamls ==
    {[featurizer |-> [channels |-> 64]]}
    \cup {[featurizer |-> [channels |-> 64], classifier |-> b] : b \in ClassifierBlocks}

\* The number of distinct labels of the training data.
ClassCounts == {2, 3}

\* The configuration is loaded once; the builders are then called in any
\* order, any number of times, on the loaded objects.
InitBuild ==
    /\ pc = "ready"
    /\ \E pre \in PreprocessorConfigs, loss \in LossConfigs, model \in ModelConfigs :
          cfg = [preprocessor |-> pre, loss |-> loss, model |-> model]
    /\ \E y \in ModelYamls : disk = [loaded |-> cfg, files |-> [p \in {ModelYamlPath} |-> y]]
    /\ arg = None
    /\ ret = NoCall
    /\ events = <<>>

Call_build_preprocessor ==
    /\ pc = "ready"
    /\ \E eval \in BOOLEAN :
          LET fr == build_preprocessor(cfg.preprocessor, eval)
          IN  /\ ret' = Outcome("build_preprocessor", fr)
              /\ events' = fr.events
              /\ cfg' = [cfg EXCEPT !.preprocessor = fr.config]
              /\ arg' = [eval |-> eval]
    /\ UNCHANGED <<pc, disk>>

Call_build_loss ==
    /\ pc = "ready"
    /\ LET fr == build_loss(cfg.loss)
       IN  /\ ret' = Outcome("build_loss", fr)
           /\ events' = fr.events
    /\ arg' = None
    /\ UNCHANGED <<pc, cfg, disk>>

Call_build_model ==
    /\ pc = "ready"
    /\ \E n \in ClassCounts :
          LET fr == build_model(cfg.model, n, disk.files)
          IN  /\ ret' = Outcome("build_model", fr)
              /\ events' = fr.events
              /\ arg' = [num_classess |-> n]
    /\ UNCHANGED <<pc, cfg, disk>>

NextBuild ==
    \/ Call_build_preprocessor
    \/ Call_build_loss
    \/ Call_build_model

SpecBuild == InitBuild /\ [][NextBuild]_vars

\* ------------------------------------------------------------- builder claims
PreprocessorConstructed ==
    /\ ret.fn = "build_preprocessor"
    /\ Len(ConstructEvents(events)) = 1

\* The keyword arguments the preprocessor class was called with.
PreprocessorKwargs == ConstructEvents(events)[1].kwargs

\* The params of the preprocessor section as the configuration file gives them.
ConfiguredPreprocessorParams == disk.loaded.preprocessor.params

\* C4: build_preprocessor constructs the preprocessor with dither 0.0 when
\* eval is true, and with the dither value the configuration gives when eval
\* is false.
C4_DitherZeroExactlyWhenEval ==
    PreprocessorConstructed =>
        IF arg.eval
        THEN PreprocessorKwargs.dither = 0
        ELSE "dither" \in DOMAIN ConfiguredPreprocessorParams =>
                 PreprocessorKwargs.dither = ConfiguredPreprocessorParams.dither

\* C5: whatever builders have been called, every configuration object handed
\* to them is as it was loaded.
C5_BuildersLeaveConfigurationAlone == cfg = disk.loaded

ModelCallDone == ret.fn = "build_model" /\ cfg.model # None

\* The constructor calls build_model made for a classifier.
ClassifierCalls ==
    SelectSeq(ConstructEvents(events), LAMBDA e : e.cls \in supported_classifiers)

ExternalClassifierBlock == disk.files[cfg.model.params.cfg_path].classifier

\* C6 (as stated): on every key that the external classifier block and the
\* model spec's params both hold, the classifier constructor receives the
\* spec's value.
C6_Original_SpecWinsOnEveryKey ==
    (ModelCallDone /\ Len(ClassifierCalls) = 1) =>
        \A k \in (DOMAIN ExternalClassifierBlock) \cap (DOMAIN cfg.model.params) :
            ClassifierCalls[1].kwargs[k] = cfg.model.params[k]

\* C6 (amended): the classifier constructor receives the keys of the external
\* classifier block and of the spec's params and num_classes; num_classes is
\* the injected class count, and every other key carries the spec's value
\* when the spec's params hold it and the external block's value otherwise.
C6_SpecWinsExceptNumClasses ==
    (ModelCallDone /\ Len(ClassifierCalls) = 1) =>
        LET kwargs == ClassifierCalls[1].kwargs
            params == cfg.model.params
        IN  /\ DOMAIN kwargs =
                  (DOMAIN ExternalClassifierBlock) \cup (DOMAIN params) \cup {"num_classes"}
            /\ kwargs.num_classes = arg.num_classess
            /\ \A k \in (DOMAIN kwargs) \ {"num_classes"} :
                  kwargs[k] = IF k \in DOMAIN params THEN params[k]
                              ELSE ExternalClassifierBlock[k]

\* A classifier was built where both sides give hidden_dim, and another key
\* comes from the external block alone.
C6_Witness ==
    /\ ModelCallDone
    /\ ret.exc = NoExc
    /\ Len(ClassifierCalls) = 1
    /\ "hidden_dim" \in DOMAIN ExternalClassifierBlock
    /\ "hidden_dim" \in DOMAIN cfg.model.params
    /\ ExternalClassifierBlock.hidden_dim # cfg.model.params.hidden_dim
    /\ "dropout" \in DOMAIN ExternalClassifierBlock

\* C7: without a classifier_type build_model returns (featurizer, None), the
\* featurizer built from the external featurizer block; it neither looks up
\* the classifier registry nor reads the external classifier block.
C7_FeaturizerOnly ==
    (ModelCallDone /\ "classifier_type" \notin DOMAIN cfg.model) =>
        /\ ret.exc = NoExc =>
              ret.value =
                  [featurizer |->
                      [cls |-> cfg.model.featurizer_type,
                       kwargs |-> disk.files[cfg.model.params.cfg_path].featurizer],
                   classifier |-> None]
        /\ \A i \in 1..Len(events) :
              /\ events[i].op = "lookup" => events[i].registry # "supported_classifiers"
              /\ events[i].op = "read_block" => events[i].key # "classifier"
              /\ events[i].op = "construct" => events[i].cls = cfg.model.featurizer_type

\* A featurizer-only model was built from a yaml that has no classifier block.
C7_Witness ==
    /\ ModelCallDone
    /\ "classifier_type" \notin DOMAIN cfg.model
    /\ "classifier" \notin DOMAIN disk.files[cfg.model.params.cfg_path]
    /\ ret.exc = NoExc
    /\ ret.value.classifier = None
    /\ ret.value.featurizer.cls = "ecapa"

\* ------------------------------------------------------------- trainer
\* (logger_path, checkpoints_path) = exp_manager(cfg_path)
exp_manager(cfg_path) == [logger_path |-> "log_dir", checkpoints_path |-> CheckpointDir]

\* The counters of a freshly constructed Trainer's fit loop.
FreshFitLoop == [global_step |-> 0, current_epoch |-> 0]

\* explicit_checkpoint_path and os.path.exists(explicit_checkpoint_path)
resumes_from(files, explicit_checkpoint_path) ==
    /\ explicit_checkpoint_path \notin {NoneStr, ""}
    /\ explicit_checkpoint_path \in DOMAIN files

build_trainer(config, cfg_path, files) ==
    LET dirs == exp_manager(cfg_path)
        started == Emit(Frame0, [op |-> "exp_manager", cfg_path |-> cfg_path])
        cbs == build_callbacks(read_entries(files, config, "callbacks"),
                               dirs.checkpoints_path)
        after_cbs == [cbs EXCEPT !.events = started.events \o cbs.events]
        logger == [cls |-> "TensorBoardLogger", save_dir |-> dirs.logger_path]
        trainer == [cls |-> "Trainer", kwargs |-> config.trainer, logger |-> logger,
                    callbacks |-> cbs.value, fit_loop |-> FreshFitLoop]
        made == Emit(Emit(after_cbs, [op |-> "construct_logger", cls |-> logger.cls]),
                     [op |-> "construct_trainer", cls |-> "Trainer"])
    IN  IF cbs.exc # NoExc THEN after_cbs
        ELSE IF "explicit_checkpoint_path" \notin DOMAIN config
        THEN Raise(made, "KeyError")
        ELSE IF resumes_from(files, config.explicit_checkpoint_path)
        THEN LET loaded_checkpoint == files[config.explicit_checkpoint_path]
             IN  [Emit(made, [op |-> "torch.load",
                              path |-> config.explicit_checkpoint_path])
                    EXCEPT !.value =
                        [trainer EXCEPT !.fit_loop =
                            [global_step |-> loaded_checkpoint.global_step,
                             current_epoch |-> loaded_checkpoint.epoch]]]
        ELSE [made EXCEPT !.value = trainer]

\* ------------------------------------------------------------- SpecTrainer
CallbacksYaml == "callbacks.yaml"

CheckpointFile == "last.ckpt"

ConfigPath == "config.yaml"

Checkpoints ==
    {[global_step |-> g, epoch |-> e] : g \in 0..MaxCounter, e \in 0..MaxCounter}

\* The files a checkpoint of content ck (or none) and a callbacks yaml of
\* content cb (or none) make.
FilesOf(has_ck, ck, has_cb, cb) ==
    [p \in (IF has_ck THEN {CheckpointFile} ELSE {})
           \cup (IF has_cb THEN {CallbacksYaml} ELSE {}) |->
        IF p = CheckpointFile THEN ck ELSE cb]

\* The top-level configurations build_trainer is given: explicit_checkpoint_path
\* missing, null, empty or a path; callbacks missing or a path.
TrainerConfigs ==
    {[k \in S \cup {"trainer"} |->
          CASE k = "trainer" -> [max_epochs |-> 10]
            [] k = "callbacks" -> CallbacksYaml
            [] OTHER -> path] :
        S \in SUBSET {"callbacks", "explicit_checkpoint_path"},
        path \in {NoneStr, "", CheckpointFile}}

\* One call of build_trainer.
InitTrainer ==
    /\ pc = "ready"
    /\ cfg \in TrainerConfigs
    /\ \E has_ck \in BOOLEAN, ck \in Checkpoints,
          cb \in ConfigsOver(CallbackEntries({"ModelCheckpoint", "bogus"}), 1) :
          disk = [loaded |-> cfg,
                  files |-> FilesOf(has_ck, ck, "callbacks" \in DOMAIN cfg, cb)]
    /\ arg = [cfg_path |-> ConfigPath]
    /\ ret = NoCall
    /\ events = <<>>

Call_build_trainer ==
    /\ pc = "ready"
    /\ LET fr == build_trainer(cfg, arg.cfg_path, disk.files)
       IN  /\ ret' = Outcome("build_trainer", fr)
           /\ events' = fr.events
    /\ pc' = "done"
    /\ UNCHANGED <<cfg, disk, arg>>

NextTrainer == Call_build_trainer

SpecTrainer == InitTrainer /\ [][NextTrainer]_vars

TrainerCallDone == pc = "done" /\ ret.fn = "build_trainer"

\* The configured explicit_checkpoint_path, NoneStr when the key is missing.
ConfiguredCheckpointPath ==
    IF "explicit_checkpoint_path" \in DOMAIN cfg
    THEN cfg.explicit_checkpoint_path ELSE NoneStr

\* C9: when no callback constructor fails, build_trainer returns a
\* controller; its counters are those stored in the checkpoint when
\* explicit_checkpoint_path is set and the file exists, and otherwise (path
\* unset, key missing, or no such file) the fresh defaults, no checkpoint
\* being loaded.
C9_ResumeCounters ==
    (TrainerCallDone /\ ret.exc \notin {"ConstructorError", "TypeError"}) =>
        /\ ret.exc = NoExc
        /\ IF resumes_from(disk.files, ConfiguredCheckpointPath)
           THEN /\ ret.value.fit_loop.global_step =
                       disk.files[ConfiguredCheckpointPath].global_step
                /\ ret.value.fit_loop.current_epoch =
                       disk.files[ConfiguredCheckpointPath].epoch
           ELSE /\ ret.value.fit_loop = FreshFitLoop
                /\ \A i \in 1..Len(events) : events[i].op # "torch.load"

\* ------------------------------------------------------------- dataloaders
\* Mutant: one configured view already selects the multi-view mode.
train_loader_kwargs_from_one_view(n_views) ==
    IF n_views >= 1
    THEN [type |-> "multi_view", n_views |-> n_views]
    ELSE [type |-> "single_view"]

\* loader_kwargs as the train partition is requested.
train_loader_kwargs(n_views) ==
    IF n_views > 1
    THEN [type |-> "multi_view", n_views |-> n_views]
    ELSE [type |-> "single_view"]

\* dataset.get_subset(split, loader_kwargs=..., augmentor=...)
get_subset(fr, split, loader_kwargs, augmentor) ==
    Emit(fr, [op |-> "get_subset", split |-> split, loader_kwargs |-> loader_kwargs,
              augmentor |-> augmentor])

\* get_eval_loader("standard", dataset, batch_size=...) / get_train_loader(...)
get_loader(fr, kind, split, batch_size) ==
    Emit(fr, [op |-> kind, split |-> split, batch_size |-> batch_size])

build_dataloaders(data_config, augmentor) ==
    IF data_config = None
    THEN Raise(Frame0, "ValueError: Data is missing.")
    ELSE LET dataset == Emit(Frame0, [op |-> "construct_dataset", cls |-> "MLSRDataset",
                                      root_dir |-> data_config.root_dir])
             loader_kwargs == [type |-> "single_view"]
             val == get_subset(dataset, "val", loader_kwargs, None)
             id_val == get_subset(val, "id_val", loader_kwargs, None)
             test == get_subset(id_val, "test", loader_kwargs, None)
             params == data_config.params
             train == get_subset(test, "train", train_loader_kwargs(params.n_views),
                                 augmentor)
             l1 == get_loader(train, "get_eval_loader", "val", params.eval_bs)
             l2 == get_loader(l1, "get_eval_loader", "test", params.eval_bs)
             l3 == get_loader(l2, "get_eval_loader", "id_val", params.eval_bs)
             l4 == get_loader(l3, "get_train_loader", "train", params.train_bs)
         IN  [l4 EXCEPT !.value =
                 [train |-> [dataset |-> "train", loader |-> params.train_bs],
                  val |-> [dataset |-> "val", loader |-> params.eval_bs],
                  id_val |-> [dataset |-> "id_val", loader |-> params.eval_bs]]]

\* ------------------------------------------------------------- SpecData
DataConfigs ==
    {None}
    \cup {[root_dir |-> r, params |-> [n_views |-> n, eval_bs |-> e, train_bs |-> t]] :
             r \in {"data", "data2"}, n \in 0..MaxViews, e \in {8, 16}, t \in {8, 16}}

\* The augmentors build_augmentor returns, and None.
Augmentors ==
    {None}
    \cup {build_augmentor(c).value :
             c \in {<<>>, <<[type |-> "noise", do_enable |-> TRUE,
                             params |-> [gain |-> 6], p |-> 1]>>}}

\* One call of build_dataloaders.
InitData ==
    /\ pc = "ready"
    /\ cfg \in DataConfigs
    /\ disk = None
    /\ arg \in {[augmentor |-> a] : a \in Augmentors}
    /\ ret = NoCall
    /\ events = <<>>

Call_build_dataloaders ==
    /\ pc = "ready"
    /\ LET fr == build_dataloaders(cfg, arg.augmentor)
       IN  /\ ret' = Outcome("build_dataloaders", fr)
           /\ events' = fr.events
    /\ pc' = "done"
    /\ UNCHANGED <<cfg, disk, arg>>

NextData == Call_build_dataloaders

SpecData == InitData /\ [][NextData]_vars

SubsetRequests(evs) == SelectSeq(evs, LAMBDA e : e.op = "get_subset")

\* C10: build_dataloaders requests val, id_val and test in single-view mode
\* without augmentor, whatever n_views is; it requests train with the
\* augmentor, in multi-view mode carrying n_views exactly when n_views > 1
\* and in single-view mode otherwise.
C10_PartitionModes ==
    (pc = "done" /\ ret.fn = "build_dataloaders" /\ cfg # None) =>
        LET asked == SubsetRequests(events)
            n == cfg.params.n_views
        IN  /\ ret.exc = NoExc
            /\ [i \in 1..Len(asked) |-> asked[i].split] = <<"val", "id_val", "test", "train">>
            /\ \A i \in 1..3 :
                  /\ asked[i].loader_kwargs = [type |-> "single_view"]
                  /\ asked[i].augmentor = None
            /\ asked[4].augmentor = arg.augmentor
            /\ n > 1 => asked[4].loader_kwargs = [type |-> "multi_view", n_views |-> n]
            /\ n <= 1 => asked[4].loader_kwargs = [type |-> "single_view"]

\* The train partition was requested in multi-view mode with an augmentor.
C10_Witness ==
    /\ pc = "done"
    /\ ret.fn = "build_dataloaders"
    /\ ret.exc = NoExc
    /\ cfg.params.n_views = 2
    /\ arg.augmentor # None
    /\ SubsetRequests(events)[4].loader_kwargs.type = "multi_view"

\* ------------------------------------------------------------- __main__
\* Mutant: the sections that need no data are built before the dataloaders.
MainOrder_preprocessor_and_loss_first ==
    <<"build_augmentor", "build_preprocessor", "build_loss", "build_dataloaders",
      "build_model", "build_spec_augmentor", "build_trainer", "fit">>

\* The calls of the start-up flow, in program order.
MainOrder ==
    <<"build_augmentor", "build_dataloaders", "build_model", "build_spec_augmentor",
      "build_preprocessor", "build_loss", "build_trainer", "fit">>

\* The position after a step that returned.
After(step) ==
    LET i == CHOOSE j \in 1..Len(MainOrder) : MainOrder[j] = step
    IN  IF i = Len(MainOrder) THEN "done" ELSE MainOrder[i + 1]

AugmentationsYaml == "augmentations.yaml"

SpecAugmentationsYaml == "spec_augmentations.yaml"

\* The value the configuration file gives to a top-level key.
SectionValue(k) ==
    CASE k = "audio_augmentations" -> AugmentationsYaml
      [] k = "spec_augmentations" -> SpecAugmentationsYaml
      [] k = "data" -> [root_dir |-> "data",
                        params |-> [n_views |-> 2, eval_bs |-> 8, train_bs |-> 16]]
      [] k = "model" -> [featurizer_type |-> "ecapa", classifier_type |-> "linear",
                         params |-> [cfg_path |-> ModelYamlPath, hidden_dim |-> 512]]
      [] k = "preprocessor" -> [type |-> "mel", params |-> [dither |-> 5]]
      [] k = "loss" -> [type |-> "aam", params |-> <<>>]
      [] k = "trainer" -> [max_epochs |-> 10]
      [] k = "optimizer" -> [lr |-> 1]
      [] k = "callbacks" -> CallbacksYaml
      [] OTHER -> CheckpointFile

\* The files beside the configuration.
MainFiles ==
    [p \in {AugmentationsYaml, SpecAugmentationsYaml, ModelYamlPath, CallbacksYaml,
             CheckpointFile} |->
        CASE p = AugmentationsYaml ->
                 <<[type |-> "noise", do_enable |-> TRUE, params |-> [gain |-> 6], p |-> 1]>>
          [] p = SpecAugmentationsYaml ->
                 <<[type |-> "freq_mask", do_enable |-> FALSE, params |-> <<>>, p |-> 1],
                   [type |-> "time_mask", do_enable |-> TRUE, params |-> <<>>, p |-> 1]>>
          [] p = ModelYamlPath ->
                 [featurizer |-> [channels |-> 64], classifier |-> [hidden_dim |-> 256]]
          [] p = CallbacksYaml ->
                 <<[type |-> "ModelCheckpoint", do_enable |-> TRUE,
                    params |-> [monitor |-> "val_loss"]]>>
          [] OTHER -> [global_step |-> 1, epoch |-> 2]]

\* cfg = read_yaml(args.cfg): any of the sections may be missing.
InitMain ==
    /\ pc = MainOrder[1]
    /\ \E S \in SUBSET {"audio_augmentations", "spec_augmentations", "data", "model",
                        "preprocessor", "loss", "callbacks",
                        "explicit_checkpoint_path"} :
          cfg = [k \in S \cup {"trainer", "optimizer"} |-> SectionValue(k)]
    /\ disk = [loaded |-> cfg, files |-> MainFiles]
    /\ arg = [cfg_path |-> ConfigPath]
    /\ ret = NoCall
    /\ events = <<>>

\* The effect of a step of __main__ whose call ended as frame fr: an
\* exception ends the process, a return binds the local name.
MainStep(step, fr, name) ==
    /\ ret' = Outcome(step, fr)
    /\ events' = events \o fr.events
    /\ IF fr.exc # NoExc
       THEN pc' = "error" /\ arg' = arg
       ELSE pc' = After(step) /\ arg' = SetItem(arg, name, fr.value)
    /\ UNCHANGED disk

Main_build_augmentor ==
    /\ pc = "build_augmentor"
    /\ MainStep("build_augmentor",
                build_augmentor(read_entries(disk.files, cfg, "audio_augmentations")),
                "augmentor")
    /\ UNCHANGED cfg

\* num_classes = len(set(train_dataset.y_array.tolist())) is what the data hold.
Main_build_dataloaders ==
    /\ pc = "build_dataloaders"
    /\ \E n \in ClassCounts :
          LET fr == build_dataloaders(Get(cfg, "data"), arg.augmentor)
          IN  MainStep("build_dataloaders",
                       [fr EXCEPT !.value = [datasets |-> fr.value, num_classes |-> n]],
                       "data")
    /\ UNCHANGED cfg

Main_build_model ==
    /\ pc = "build_model"
    /\ MainStep("build_model",
                build_model(Get(cfg, "model"), arg.data.num_classes, disk.files),
                "model")
    /\ UNCHANGED cfg

Main_build_spec_augmentor ==
    /\ pc = "build_spec_augmentor"
    /\ MainStep("build_spec_augmentor",
                build_spec_augmentor(read_entries(disk.files, cfg, "spec_augmentations")),
                "spec_augmentor")
    /\ UNCHANGED cfg

Main_build_preprocessor ==
    /\ pc = "build_preprocessor"
    /\ LET fr == build_preprocessor(Get(cfg, "preprocessor"), FALSE)
       IN  /\ MainStep("build_preprocessor", fr, "preprocessor")
           /\ cfg' = IF "preprocessor" \in DOMAIN cfg
                     THEN [cfg EXCEPT !.preprocessor = fr.config] ELSE cfg

Main_build_loss ==
    /\ pc = "build_loss"
    /\ MainStep("build_loss", build_loss(Get(cfg, "loss")), "loss")
    /\ UNCHANGED cfg

Main_build_trainer ==
    /\ pc = "build_trainer"
    /\ MainStep("build_trainer", build_trainer(cfg, arg.cfg_path, disk.files), "trainer")
    /\ UNCHANGED cfg

\* SpeakerEmbeddingModel(...), model.setup_dataloaders(...), trainer.fit(model)
Main_fit ==
    /\ pc = "fit"
    /\ MainStep("fit",
                Emit(Emit(Emit(Frame0,
                               [op |-> "construct_model", cls |-> "SpeakerEmbeddingModel",
                                optim_config |-> cfg.optimizer]),
                          [op |-> "setup_dataloaders"]),
                     [op |-> "fit"]),
                "fitted")
    /\ UNCHANGED cfg

NextMain ==
    \/ Main_build_augmentor
    \/ Main_build_dataloaders
    \/ Main_build_model
    \/ Main_build_spec_augmentor
    \/ Main_build_preprocessor
    \/ Main_build_loss
    \/ Main_build_trainer
    \/ Main_fit

SpecMain == InitMain /\ [][NextMain]_vars

\* ------------------------------------------------------------- start-up claims
MissingSectionErrors ==
    {"ValueError: Preprocessor is missing.", "ValueError: Loss is missing.",
     "ValueError: Model is missing."}

RequiredSectionAbsent == \E k \in {"preprocessor", "loss", "model"} : k \notin DOMAIN cfg

\* How many calls of the given kind the process has made.
Made(op) == Len(SelectSeq(events, LAMBDA e : e.op = op))

DatasetOrLoaderMade ==
    \E op \in {"construct_dataset", "get_subset", "get_eval_loader", "get_train_loader"} :
        Made(op) > 0

\* C3 (as stated): when the start-up flow raises the configuration error of
\* a missing preprocessor, loss or model section, no dataset, subset or
\* loader has been constructed.
C3_Original_ErrorBeforeDatasets ==
    (pc = "error" /\ ret.exc \in MissingSectionErrors) => ~DatasetOrLoaderMade

\* C3 (amended): with the preprocessor, loss or model section missing, the
\* flow never constructs the trainer and never starts training; the missing
\* section's ValueError is raised only after build_dataloaders has
\* constructed the dataset, its four subsets and the four loaders.
C3_ErrorBeforeTrainerAfterDatasets ==
    /\ RequiredSectionAbsent =>
          /\ Made("construct_trainer") = 0
          /\ Made("fit") = 0
          /\ pc \notin {"fit", "done"}
    /\ (pc = "error" /\ ret.exc \in MissingSectionErrors) =>
          /\ RequiredSectionAbsent
          /\ Made("construct_dataset") = 1
          /\ Made("get_subset") = 4
          /\ Made("get_eval_loader") = 3
          /\ Made("get_train_loader") = 1
          /\ Made("construct_trainer") = 0

\* The flow stopped on a missing preprocessor section, the datasets built.
C3_Witness ==
    /\ pc = "error"
    /\ ret.exc = "ValueError: Preprocessor is missing."
    /\ "model" \in DOMAIN cfg
    /\ DatasetOrLoaderMade

====
